---- MODULE Spec2Model ----
(***************************************************************************)
(* Task orchestration of the crawler dashboard (src/dashboard.py):         *)
(* the crawl_tasks table, the in-memory crawl_queue, the canceled_tasks    *)
(* registry, the background_crawler dispatcher thread, the periodic        *)
(* scheduler thread and the request handlers add_task, cancel_task and     *)
(* update_stale, interleaved at the granularity of one SQL statement or    *)
(* one access to a shared in-memory object.                                *)
(* Further down: one crawl, refresh or favicon pass (src/web.py,           *)
(* src/resultupdater.py, src/favicons.py) and normalize_url.                *)
(***************************************************************************)
EXTENDS FiniteSets, Integers, Sequences, TLC

\* ------------------------------------------------------------------ bounds
NumPrior == 1       \* task rows left in the table by a previous run
MaxRequests == 3    \* requests and scheduler ticks served during this run

PriorIds == 1..NumPrior
TaskIds  == 1..(NumPrior + MaxRequests)

Live     == {"pending", "running"}
Terminal == {"completed", "canceled", "failed"}

\* text of the ValueError Queue.task_done raises
TaskDoneError == "task_done() called too many times"

VARIABLES
    status,           \* crawl_tasks.status per id ("absent": no such row);
                      \* 'failed: <text>' is status "failed" with reason <text>
    reason,           \* the text after 'failed: ' in the status column
    completed_at,     \* crawl_tasks.completed_at is non-null
    crawl_queue,      \* Queue(): the queued task dicts, oldest first
    unfinished_tasks, \* Queue.unfinished_tasks
    canceled_tasks,   \* the registry set
    main_pc,          \* __main__: "reset" before reset_running_tasks, then "serving"
    d_pc,             \* position of the background_crawler thread
    d_task,           \* the task dict it holds
    d_canceled,       \* outcome of `task_id in canceled_tasks` at line 133
    d_exc,            \* the exception being handled
    d_conn,           \* the dispatcher's sqlite connection: "open" or "closed"
    process,          \* the dispatcher's refresh subprocess
    adding,           \* add_task requests between INSERT and put
    stale_pc,         \* periodic_stale_update: "insert" or "put"
    stale_id,         \* lastrowid held by periodic_stale_update
    canceling,        \* cancel_task requests between UPDATE and add
    direct_procs,     \* subprocesses started by /update_stale, still running
    requests,         \* requests and scheduler ticks begun so far (bounds the run)
    \* history (not program state)
    leftover,         \* prior-run ids that were pending or running at startup
    cancel_req,       \* ids whose cancel UPDATE found the row pending or running
    cancel_pending,   \* ids whose cancel UPDATE found the row pending
    cancel_noop,      \* in-flight cancels whose UPDATE found the row terminal
    exc_of            \* last exception raised while the dispatcher handled the id

\* ------------------------------------------------------------------------
\* The crawl engine: the crawl pass of src/web.py (main, crawl_page,
\* crawl_for_favicons), the refresh pass of src/resultupdater.py (main,
\* process_url, crawl) and the pages table both write.  Each is a program
\* of its own, started from the command line; `prog` says which one runs.
\* ------------------------------------------------------------------------
MaxDepth == 2       \* largest -d/--depth given to web.py
MaxRows  == 1       \* rows the pages table holds when a pass starts

\* A URL scheme://netloc path [/] [query]: `path` is the path without a
\* trailing slash, `slash` says that one follows it.
Domains == {"a.com", "nota.com"}
Paths   == {"", "/p"}
Queries == {"", "?q=1"}
URLs    == [netloc : Domains, path : Paths, slash : BOOLEAN, query : Queries]

\* web.py normalize_url: scheme://netloc + path, then rstrip('/')
normalize_url(url) ==
    [netloc |-> url.netloc, path |-> url.path, slash |-> FALSE, query |-> ""]

\* keys of the pages table
Keys == {normalize_url(u) : u \in URLs}

\* web.py is_home_page: urlparse(url).path in ('', '/')
is_home_page(url) == url.path = ""

\* CREATE TABLE pages: one row per url (PRIMARY KEY)
NoRow ==
    [present |-> FALSE, title |-> "", description |-> "", keywords |-> "",
     priority |-> 0, last_crawled |-> "null", favicon_id |-> "null"]

\* a row left by an earlier pass; `age` is "old" (older than the 14 day
\* cut-off of get_stale_urls) or "fresh"
StoredRow(age) ==
    [present |-> TRUE, title |-> "Home", description |-> "D", keywords |-> "",
     priority |-> 0, last_crawled |-> age, favicon_id |-> "f0"]

\* soup.title.string of a <title> tag without a single text child
NoneTitle == "<None>"

VARIABLES
    prog,             \* "none", "web" (python web.py) or "resultupdater"
    pages,            \* the pages table: key -> row (NoRow: no such row)
    args_url,         \* web.py main: args.url
    args_depth,       \* web.py main: args.depth
    m_pc,             \* position of main
    depth,            \* web.py main: the loop variable of line 352
    visited,          \* web.py main: visited
    to_visit,         \* web.py main: to_visit
    new_urls,         \* web.py main: new_urls
    all_found_urls,   \* web.py main: all_found_urls
    futures,          \* the executor's futures, per submitted URL
    fav_todo,         \* crawl_for_favicons: domains whose future is not handled
    retries,          \* resultupdater crawl: the retries argument, per URL
    \* history (not program state)
    pages0,           \* the pages table when the pass started
    fetches,          \* page GETs sent so far, per normalized URL
    waited,           \* seconds slept by crawl so far, per URL
    last,             \* what the latest page GET received and extracted
    fav_fetched       \* domains whose favicon was requested

engine == <<prog, pages, args_url, args_depth, m_pc, depth, visited, to_visit,
            new_urls, all_found_urls, futures, fav_todo, retries,
            pages0, fetches, waited, last, fav_fetched>>

NoUrl == [netloc |-> "", path |-> "", slash |-> FALSE, query |-> ""]

\* a future: st is "none" (not submitted), "pending", "done" or "collected";
\* a finished crawl_page returned None (none) or the set links
NoFuture == [st |-> "none", none |-> FALSE, links |-> {}]

NoFetch ==
    [key |-> NoUrl, class |-> "none", title |-> "", description |-> "",
     keywords |-> "", noindex |-> FALSE, had_row |-> FALSE, foreign |-> FALSE,
     links |-> {}]

\* no crawl or refresh pass runs: no table is open, no pool exists
EngineIdle ==
    /\ prog = "none"
    /\ pages = <<>>
    /\ args_url = NoUrl
    /\ args_depth = 0
    /\ m_pc = "idle"
    /\ depth = 0
    /\ visited = {}
    /\ to_visit = {}
    /\ new_urls = {}
    /\ all_found_urls = {}
    /\ futures = <<>>
    /\ fav_todo = {}
    /\ retries = <<>>
    /\ pages0 = pages
    /\ fetches = <<>>
    /\ waited = <<>>
    /\ last = NoFetch
    /\ fav_fetched = {}

\* ------------------------------------------------------------------------
\* State beside the two groups above: the cancellation callback handed to a
\* crawl, the update list of src/favicons.py, the output stream of the
\* refresh subprocess, and one evaluation of normalize_url.
\* ------------------------------------------------------------------------
MaxLen   == 4       \* longest URL text drawn symbol by symbol
MaxLines == 2       \* lines the refresh subprocess writes before it ends

VARIABLES
    is_canceled,      \* dashboard.py is_canceled(): task_id in canceled_tasks
    updates,          \* favicons.py crawl_for_favicons: updates
    fav_last,         \* history: the latest favicon GET and what it resolved to
    s_read,           \* lines of process.stdout the dispatcher has read
    s_log,            \* of those, the ones handed to capture_log, in order
    n_impl,           \* the module whose normalize_url is evaluated
    n_pc,             \* "off", "in", "once" or "twice"
    n_in,             \* the argument
    n_once,           \* normalize_url(n_in)
    n_twice           \* normalize_url(normalize_url(n_in))

callback == <<is_canceled>>
favs     == <<updates, fav_last>>
stream   == <<s_read, s_log>>
pure     == <<n_impl, n_pc, n_in, n_once, n_twice>>
side     == <<callback, favs, stream, pure>>

StreamIdle == s_read = 0 /\ s_log = <<>>

PureIdle ==
    /\ n_impl = "none"
    /\ n_pc = "off"
    /\ n_in = <<>>
    /\ n_once = <<>>
    /\ n_twice = <<>>

CallbackIdle == is_canceled = FALSE

NoFav == [domain |-> "", class |-> "none", hash |-> "null"]

FavsIdle == updates = <<>> /\ fav_last = NoFav

vars == <<status, reason, completed_at, crawl_queue, unfinished_tasks,
          canceled_tasks, main_pc, d_pc, d_task, d_canceled, d_exc, d_conn,
          process, adding, stale_pc, stale_id, canceling, direct_procs, requests,
          leftover, cancel_req, cancel_pending, cancel_noop, exc_of, engine, side>>

rows     == <<status, reason, completed_at>>
queue    == <<crawl_queue, unfinished_tasks>>
dthread  == <<d_pc, d_task, d_canceled, d_exc, d_conn, process>>
handlers == <<adding, stale_pc, stale_id, canceling, direct_procs, requests>>
hist     == <<leftover, cancel_req, cancel_pending, cancel_noop, exc_of>>

NoTask == [id |-> 0, task_type |-> "none"]

\* lastrowid of an INSERT into the AUTOINCREMENT table
lastrowid == 1 + Cardinality({t \in TaskIds : status[t] # "absent"})

\* ------------------------------------------------------------------- Init
Init ==
    /\ status \in [TaskIds -> Live \cup Terminal \cup {"absent"}]
    /\ \A t \in TaskIds : (status[t] = "absent") <=> (t \notin PriorIds)
    \* one dispatcher ran before: at most one row was left running
    /\ Cardinality({t \in TaskIds : status[t] = "running"}) <= 1
    /\ reason = [t \in TaskIds |-> ""]
    /\ completed_at = [t \in TaskIds |-> status[t] \in Terminal]
    /\ crawl_queue = <<>>
    /\ unfinished_tasks = 0
    /\ canceled_tasks = {}
    /\ main_pc = "reset"
    /\ d_pc = "get"
    /\ d_task = NoTask
    /\ d_canceled = FALSE
    /\ d_exc = ""
    /\ d_conn = "closed"
    /\ process = "none"
    /\ adding = {}
    /\ stale_pc = "insert"
    /\ stale_id = 0
    /\ canceling = {}
    /\ direct_procs = 0
    /\ requests = 0
    /\ leftover = {t \in PriorIds : status[t] \in Live}
    /\ cancel_req = {}
    /\ cancel_pending = {}
    /\ cancel_noop = {}
    /\ exc_of = [t \in TaskIds |-> ""]
    /\ EngineIdle
    /\ CallbackIdle /\ FavsIdle /\ StreamIdle /\ PureIdle

\* ------------------------------------------------------------- __main__
\* UPDATE crawl_tasks SET status = 'failed' WHERE status IN ('running','pending')
reset_status_running_only(st) ==
    [t \in TaskIds |-> IF st[t] = "running" THEN "failed" ELSE st[t]]

reset_status(st) ==
    [t \in TaskIds |-> IF st[t] \in {"running", "pending"} THEN "failed" ELSE st[t]]

\* reset_running_tasks(), then both daemon threads are started and app.run serves
reset_running_tasks ==
    /\ main_pc = "reset"
    /\ status' = reset_status(status)
    /\ main_pc' = "serving"
    /\ UNCHANGED <<reason, completed_at, queue, canceled_tasks, dthread,
                   handlers, hist>>
    /\ UNCHANGED <<engine, side>>

\* ------------------------------------------------------------ Queue.put
put(item) ==
    /\ crawl_queue' = Append(crawl_queue, item)
    /\ unfinished_tasks' = unfinished_tasks + 1

\* ------------------------------------------------------------- add_task
\* INSERT ... 'pending'; task_id = c.lastrowid; commit
add_task_insert ==
    /\ main_pc = "serving"
    /\ requests < MaxRequests
    /\ requests' = requests + 1
    /\ lastrowid \in TaskIds
    /\ status' = [status EXCEPT ![lastrowid] = "pending"]
    /\ adding' = adding \cup {lastrowid}
    /\ UNCHANGED <<reason, completed_at, queue, canceled_tasks, main_pc,
                   dthread, stale_pc, stale_id, canceling, direct_procs, hist>>
    /\ UNCHANGED <<engine, side>>

\* task['id'] = task_id; crawl_queue.put(task)
add_task_put(t) ==
    /\ t \in adding
    /\ put([id |-> t, task_type |-> "crawl"])
    /\ adding' = adding \ {t}
    /\ UNCHANGED <<rows, canceled_tasks, main_pc, dthread, stale_pc, stale_id,
                   canceling, direct_procs, requests, hist>>
    /\ UNCHANGED <<engine, side>>

\* ------------------------------------------------ periodic_stale_update
periodic_insert ==
    /\ main_pc = "serving"
    /\ stale_pc = "insert"
    /\ requests < MaxRequests
    /\ requests' = requests + 1
    /\ lastrowid \in TaskIds
    /\ status' = [status EXCEPT ![lastrowid] = "pending"]
    /\ stale_id' = lastrowid
    /\ stale_pc' = "put"
    /\ UNCHANGED <<reason, completed_at, queue, canceled_tasks, main_pc,
                   dthread, adding, canceling, direct_procs, hist>>
    /\ UNCHANGED <<engine, side>>

\* crawl_queue.put({...}); time.sleep(1800); next round of the loop
periodic_put ==
    /\ stale_pc = "put"
    /\ put([id |-> stale_id, task_type |-> "stale_update"])
    /\ stale_pc' = "insert"
    /\ stale_id' = 0
    /\ UNCHANGED <<rows, canceled_tasks, main_pc, dthread, adding, canceling,
                   direct_procs, requests, hist>>
    /\ UNCHANGED <<engine, side>>

\* ---------------------------------------------------------- cancel_task
\* UPDATE crawl_tasks SET status = 'canceled' WHERE id = ? AND status IN (...)
cancel_status(st, t) ==
    IF st[t] \in {"pending", "running"} THEN [st EXCEPT ![t] = "canceled"] ELSE st

\* canceled_tasks.add(task_id)
cancel_registry(reg, t) == reg \cup {t}

cancel_task_update(t) ==
    /\ main_pc = "serving"
    /\ t \notin canceling
    /\ requests < MaxRequests
    /\ requests' = requests + 1
    /\ status' = cancel_status(status, t)
    /\ canceling' = canceling \cup {t}
    /\ cancel_req' = IF status[t] \in Live THEN cancel_req \cup {t} ELSE cancel_req
    /\ cancel_pending' = IF status[t] = "pending" THEN cancel_pending \cup {t}
                         ELSE cancel_pending
    /\ cancel_noop' = IF status[t] \in Terminal THEN cancel_noop \cup {t}
                      ELSE cancel_noop
    /\ UNCHANGED <<reason, completed_at, queue, canceled_tasks, main_pc,
                   dthread, adding, stale_pc, stale_id, direct_procs, leftover,
                   exc_of>>
    /\ UNCHANGED <<engine, side>>

cancel_task_add(t) ==
    /\ t \in canceling
    /\ canceled_tasks' = cancel_registry(canceled_tasks, t)
    /\ canceling' = canceling \ {t}
    /\ cancel_noop' = cancel_noop \ {t}
    /\ UNCHANGED <<rows, queue, main_pc, dthread, adding, stale_pc, stale_id,
                   direct_procs, requests, leftover, cancel_req, cancel_pending,
                   exc_of>>
    /\ UNCHANGED <<engine, side>>

\* --------------------------------------------------------- update_stale
\* subprocess.Popen(resultupdater.py) in the request thread
update_stale_start ==
    /\ main_pc = "serving"
    /\ requests < MaxRequests
    /\ requests' = requests + 1
    /\ direct_procs' = direct_procs + 1
    /\ UNCHANGED <<rows, queue, canceled_tasks, main_pc, dthread, adding,
                   stale_pc, stale_id, canceling, hist>>
    /\ UNCHANGED <<engine, side>>

\* the output ends and process.wait() returns
update_stale_end ==
    /\ direct_procs > 0
    /\ direct_procs' = direct_procs - 1
    /\ UNCHANGED <<rows, queue, canceled_tasks, main_pc, dthread, adding,
                   stale_pc, stale_id, canceling, requests, hist>>
    /\ UNCHANGED <<engine, side>>

\* --------------------------------------------------- background_crawler
\* task = crawl_queue.get(); task_id = task['id']; conn = sqlite3.connect(...)
bc_get ==
    /\ main_pc = "serving"
    /\ d_pc = "get"
    /\ crawl_queue # <<>>
    /\ d_task' = Head(crawl_queue)
    /\ crawl_queue' = Tail(crawl_queue)
    /\ d_pc' = "select"
    /\ d_exc' = ""
    /\ d_canceled' = FALSE
    /\ d_conn' = "open"
    /\ UNCHANGED <<rows, unfinished_tasks, canceled_tasks, main_pc, process,
                   handlers, hist>>
    /\ UNCHANGED <<engine, side>>

\* the branch taken after SELECT status FROM crawl_tasks WHERE id = ?
after_select(st) == IF st = "canceled" THEN "skip" ELSE "set_running"

bc_select ==
    /\ d_pc = "select"
    /\ d_pc' = after_select(status[d_task.id])
    /\ UNCHANGED <<rows, queue, canceled_tasks, main_pc, d_task, d_canceled,
                   d_exc, d_conn, process, handlers, hist>>
    /\ UNCHANGED <<engine, side>>

\* Queue.task_done(): the new count, or -1 where it raises ValueError
task_done(n) == IF n - 1 < 0 THEN -1 ELSE n - 1

\* an exception leaves the try block for the except clause
raise(e) ==
    /\ d_pc' = "except"
    /\ d_exc' = e
    /\ exc_of' = [exc_of EXCEPT ![d_task.id] = e]

\* lines 88-91: log, conn.close(), crawl_queue.task_done(), continue (which
\* runs the finally clause); a ValueError of task_done is raised inside try
bc_skip ==
    /\ d_pc = "skip"
    /\ d_conn' = "closed"
    /\ IF task_done(unfinished_tasks) < 0
       THEN /\ raise(TaskDoneError)
            /\ UNCHANGED unfinished_tasks
       ELSE /\ d_pc' = "finally"
            /\ unfinished_tasks' = task_done(unfinished_tasks)
            /\ UNCHANGED <<d_exc, exc_of>>
    /\ UNCHANGED <<rows, crawl_queue, canceled_tasks, main_pc, d_task,
                   d_canceled, process, handlers, leftover, cancel_req,
                   cancel_pending, cancel_noop>>
    /\ UNCHANGED <<engine, side>>

\* UPDATE crawl_tasks SET status = 'running' WHERE id = ?; commit; then the
\* branch on task.get('task_type')
bc_set_running ==
    /\ d_pc = "set_running"
    /\ status' = [status EXCEPT ![d_task.id] = "running"]
    /\ d_pc' = IF d_task.task_type = "stale_update" THEN "popen" ELSE "crawl"
    /\ UNCHANGED <<reason, completed_at, queue, canceled_tasks, main_pc,
                   d_task, d_canceled, d_exc, d_conn, process, handlers, hist>>
    /\ UNCHANGED <<engine, side>>

\* subprocess.Popen([...resultupdater.py]) starts the process
bc_popen ==
    /\ d_pc = "popen"
    /\ process' = "running"
    /\ d_pc' = "stream"
    /\ UNCHANGED <<rows, queue, canceled_tasks, main_pc, d_task, d_canceled,
                   d_exc, d_conn, handlers, hist>>
    /\ UNCHANGED <<engine, side>>

\* subprocess.Popen raises (OSError)
bc_popen_raises ==
    /\ d_pc = "popen"
    /\ raise("err_popen")
    /\ UNCHANGED <<rows, queue, canceled_tasks, main_pc, d_task, d_canceled,
                   d_conn, process, handlers, leftover, cancel_req,
                   cancel_pending, cancel_noop>>
    /\ UNCHANGED <<engine, side>>

\* one round of `for line in process.stdout`: a line is read, then the
\* registry check, then either terminate and break, or the line is logged
bc_stream_line ==
    /\ d_pc = "stream"
    /\ s_read < MaxLines
    /\ s_read' = s_read + 1
    /\ IF d_task.id \in canceled_tasks
       THEN /\ process' = "terminated"
            /\ d_pc' = "wait"
            /\ UNCHANGED s_log
       ELSE /\ s_log' = Append(s_log, s_read + 1)
            /\ UNCHANGED <<process, d_pc>>
    /\ UNCHANGED <<rows, queue, canceled_tasks, main_pc, d_task, d_canceled,
                   d_exc, d_conn, handlers, hist>>
    /\ UNCHANGED <<engine, callback, favs, pure>>

\* the output ends: the loop is left
bc_stream_eof ==
    /\ d_pc = "stream"
    /\ d_pc' = "wait"
    /\ UNCHANGED <<rows, queue, canceled_tasks, main_pc, d_task, d_canceled,
                   d_exc, d_conn, process, handlers, hist>>
    /\ UNCHANGED <<engine, side>>

\* process.wait(): the process has exited and its stream is gone
bc_wait ==
    /\ d_pc = "wait"
    /\ process' = "none"
    /\ d_pc' = "check_canceled"
    /\ s_read' = 0
    /\ s_log' = <<>>
    /\ UNCHANGED <<rows, queue, canceled_tasks, main_pc, d_task, d_canceled,
                   d_exc, d_conn, handlers, hist>>
    /\ UNCHANGED <<engine, callback, favs, pure>>

\* lines 116-129: from web import crawl; crawl(...) is entered
bc_crawl_start ==
    /\ d_pc = "crawl"
    /\ d_pc' = "crawling"
    /\ UNCHANGED <<rows, queue, canceled_tasks, main_pc, d_task, d_canceled,
                   d_exc, d_conn, process, handlers, hist>>
    /\ UNCHANGED <<engine, side>>

\* crawl(...) returns
bc_crawl_returns ==
    /\ d_pc = "crawling"
    /\ d_pc' = "check_canceled"
    /\ UNCHANGED <<rows, queue, canceled_tasks, main_pc, d_task, d_canceled,
                   d_exc, d_conn, process, handlers, hist>>
    /\ UNCHANGED <<engine, side>>

\* the import of web or crawl(...) raises
bc_crawl_raises ==
    /\ d_pc \in {"crawl", "crawling"}
    /\ raise("err_crawl")
    /\ UNCHANGED <<rows, queue, canceled_tasks, main_pc, d_task, d_canceled,
                   d_conn, process, handlers, leftover, cancel_req,
                   cancel_pending, cancel_noop>>
    /\ UNCHANGED <<engine, side>>

\* line 133: if task_id in canceled_tasks
bc_check_canceled ==
    /\ d_pc = "check_canceled"
    /\ d_canceled' = (d_task.id \in canceled_tasks)
    /\ d_pc' = "final"
    /\ UNCHANGED <<rows, queue, canceled_tasks, main_pc, d_task, d_exc,
                   d_conn, process, handlers, hist>>
    /\ UNCHANGED <<engine, side>>

\* the status written at lines 135-143
final_status(was_canceled) == IF was_canceled THEN "canceled" ELSE "completed"

\* UPDATE crawl_tasks SET status = ..., completed_at = ? WHERE id = ?; commit
bc_final ==
    /\ d_pc = "final"
    /\ status' = [status EXCEPT ![d_task.id] = final_status(d_canceled)]
    /\ completed_at' = [completed_at EXCEPT ![d_task.id] = TRUE]
    /\ d_pc' = "finally"
    /\ UNCHANGED <<reason, queue, canceled_tasks, main_pc, d_task, d_canceled,
                   d_exc, d_conn, process, handlers, hist>>
    /\ UNCHANGED <<engine, side>>

ClosedError == "Cannot operate on a closed database."

\* except Exception as e: UPDATE ... SET status = 'failed: <e>', completed_at = ?
\* (on a connection closed at line 89 the UPDATE itself raises, and that
\* exception stays pending while the finally clause runs)
bc_except ==
    /\ d_pc = "except"
    /\ d_pc' = "finally"
    /\ IF d_conn = "open"
       THEN /\ status' = [status EXCEPT ![d_task.id] = "failed"]
            /\ reason' = [reason EXCEPT ![d_task.id] = d_exc]
            /\ completed_at' = [completed_at EXCEPT ![d_task.id] = TRUE]
            /\ d_exc' = ""
            /\ UNCHANGED exc_of
       ELSE /\ d_exc' = ClosedError
            /\ exc_of' = [exc_of EXCEPT ![d_task.id] = ClosedError]
            /\ UNCHANGED rows
    /\ UNCHANGED <<queue, canceled_tasks, main_pc, d_task, d_canceled, d_conn,
                   process, handlers, leftover, cancel_req, cancel_pending,
                   cancel_noop>>
    /\ UNCHANGED <<engine, side>>

\* finally: conn.close(); crawl_queue.task_done() -- a ValueError raised here
\* leaves the loop and ends the thread
bc_finally ==
    /\ d_pc = "finally"
    /\ d_conn' = "closed"
    /\ IF task_done(unfinished_tasks) < 0
       THEN /\ d_pc' = "dead"
            /\ d_exc' = TaskDoneError
            /\ exc_of' = [exc_of EXCEPT ![d_task.id] = TaskDoneError]
            /\ UNCHANGED unfinished_tasks
       ELSE /\ d_pc' = "discard"
            /\ unfinished_tasks' = task_done(unfinished_tasks)
            /\ UNCHANGED <<d_exc, exc_of>>
    /\ UNCHANGED <<rows, crawl_queue, canceled_tasks, main_pc, d_task,
                   d_canceled, process, handlers, leftover, cancel_req,
                   cancel_pending, cancel_noop>>
    /\ UNCHANGED <<engine, side>>

\* canceled_tasks.discard(task_id); then the head of the loop, unless an
\* exception is pending, which now leaves the loop and ends the thread
bc_discard ==
    /\ d_pc = "discard"
    /\ canceled_tasks' = canceled_tasks \ {d_task.id}
    /\ IF d_exc # ""
       THEN /\ d_pc' = "dead"
            /\ UNCHANGED d_task
       ELSE /\ d_pc' = "get"
            /\ d_task' = NoTask
    /\ UNCHANGED <<rows, queue, main_pc, d_canceled, d_exc, d_conn, process,
                   handlers, hist>>
    /\ UNCHANGED <<engine, side>>

background_crawler ==
    \/ bc_get \/ bc_select \/ bc_skip \/ bc_set_running
    \/ bc_popen \/ bc_popen_raises \/ bc_stream_line \/ bc_stream_eof \/ bc_wait
    \/ bc_crawl_start \/ bc_crawl_returns \/ bc_crawl_raises
    \/ bc_check_canceled \/ bc_final \/ bc_except \/ bc_finally \/ bc_discard

\* ------------------------------------------------------------------ Next
Next ==
    \/ reset_running_tasks
    \/ add_task_insert
    \/ \E t \in TaskIds : add_task_put(t)
    \/ periodic_insert
    \/ periodic_put
    \/ \E t \in TaskIds : cancel_task_update(t)
    \/ \E t \in TaskIds : cancel_task_add(t)
    \/ update_stale_start
    \/ update_stale_end
    \/ background_crawler

Spec == Init /\ [][Next]_vars

\* =================================================================
\* Properties
\* =================================================================
NewIds == TaskIds \ PriorIds

InQueue(t) == \E i \in 1..Len(crawl_queue) : crawl_queue[i].id = t

\* the row exists but the dispatcher has not dequeued the task yet
Undispatched(t) == t \in adding \/ t = stale_id \/ InQueue(t)

\* the dispatcher has dequeued the task
Dequeued(t) == t \in NewIds /\ status[t] # "absent" /\ ~Undispatched(t)

\* the dispatcher is through with the task: it has passed line 159 for it
DispatchFinished(t) == Dequeued(t) /\ d_task.id # t

\* the crawl or the refresh subprocess of the dispatcher's task is under way
Working == d_pc = "crawling" \/ process = "running"

\* ------------------------------------------------------------------ C1
\* C1: a task whose cancellation was requested while its stored status was
\* pending or running ends with stored status 'canceled' once the dispatcher
\* is through with it.
C1_CancelResolvesToCanceled ==
    \A t \in TaskIds :
        (t \in cancel_req /\ DispatchFinished(t)) => status[t] = "canceled"

\* ------------------------------------------------------------------ C2
Allowed(a, b) ==
    \/ a = b
    \/ <<a, b>> \in {<<"absent", "pending">>, <<"pending", "running">>,
                     <<"running", "completed">>, <<"running", "failed">>,
                     <<"pending", "canceled">>, <<"running", "canceled">>}

\* C2: the stored status only moves along pending -> running -> {completed,
\* canceled, failed} or {pending, running} -> canceled (the forced failure at
\* startup apart): a terminal status never changes, running never returns to
\* pending.
C2_StatusMonotonic ==
    [][\A t \in TaskIds :
          \/ Allowed(status[t], status'[t])
          \/ main_pc = "reset" /\ status[t] \in Live /\ status'[t] = "failed"]_vars

\* ------------------------------------------------------------------ C3
\* C3: once the dispatcher is through with a task and no cancel request for
\* it is in flight, its id is not in canceled_tasks.
C3_RegistryCleared ==
    \A t \in TaskIds :
        (DispatchFinished(t) /\ t \notin canceling) => t \notin canceled_tasks

\* ------------------------------------------------------------------ C4
\* C4: the dispatcher thread never leaves its loop.
C4_DispatcherNeverExits == d_pc # "dead"

\* ------------------------------------------------------------------ C5
\* C5: a task whose stored status was set to 'canceled' while pending is
\* never set to running, and neither the crawl nor the subprocess is started
\* for it.
C5_CanceledPendingSkipped ==
    \A t \in cancel_pending :
        /\ status[t] # "running"
        /\ ~(d_task.id = t /\ Working)

\* ------------------------------------------------------------------ C6
\* C6: a cancel request that found the task terminal changes neither the
\* stored statuses nor the registry when it completes, and applying
\* cancel_task twice gives what applying it once gives.
C6_CancelNoopOnTerminal ==
    /\ [][\A t \in TaskIds :
            (t \in cancel_noop /\ t \in canceling /\ t \notin canceling')
                => (canceled_tasks' = canceled_tasks /\ status' = status)]_vars
    /\ [](\A t \in TaskIds :
            /\ cancel_status(cancel_status(status, t), t) = cancel_status(status, t)
            /\ cancel_registry(cancel_registry(canceled_tasks, t), t)
                   = cancel_registry(canceled_tasks, t))

\* ------------------------------------------------------------------ C7
\* C7: an exception raised while the dispatcher handles a task leaves that
\* task failed with the exception's text as reason and completed_at set, and
\* does not end the dispatcher.
C7_ExceptionSetsFailed ==
    \A t \in TaskIds :
        exc_of[t] # "" =>
            \/ d_task.id = t /\ d_pc = "except"
            \/ /\ status[t] = "failed"
               /\ reason[t] = exc_of[t]
               /\ completed_at[t]
               /\ ~(d_task.id = t /\ d_pc = "dead")

\* ------------------------------------------------------------------ C8
\* C8: nothing is dequeued or dispatched before the startup reset, and from
\* then on no task of a previous run is pending or running: those that were
\* are failed.
C8_PriorTasksFailedBeforeDispatch ==
    /\ main_pc = "reset" =>
          (d_pc = "get" /\ d_task = NoTask /\ crawl_queue = <<>>)
    /\ main_pc = "serving" =>
          \A t \in PriorIds :
              /\ status[t] \notin Live
              /\ t \in leftover => status[t] = "failed"

\* a leftover task was failed and the dispatcher has set a new task running
C8_Witness ==
    /\ main_pc = "serving"
    /\ leftover # {}
    /\ \A t \in leftover : status[t] = "failed"
    /\ \E t \in NewIds : status[t] = "running"

\* ------------------------------------------------------------------ C9
\* C9: a task is dequeued only after every task with a lower id (whose row
\* was created earlier) has been dequeued.
C9_FifoBySubmission ==
    \A a, b \in NewIds : (a < b /\ Dequeued(b)) => ~Undispatched(a)

\* ----------------------------------------------------------------- C10
RunningRows == {t \in TaskIds : status[t] = "running"}

ActiveJobs == direct_procs + (IF Working THEN 1 ELSE 0)

\* C10: at most one task row is 'running' and at most one crawl or refresh
\* subprocess is active.
C10_OneJobAtATime ==
    /\ Cardinality(RunningRows) <= 1
    /\ ActiveJobs <= 1

\* =================================================================
\* The crawl pass (src/web.py) and the refresh pass (src/resultupdater.py)
\* =================================================================
orch == <<rows, queue, canceled_tasks, main_pc, dthread, handlers, hist>>

\* the dashboard is not part of a pass started from the command line
OrchIdle ==
    /\ status = [t \in TaskIds |-> "absent"]
    /\ reason = [t \in TaskIds |-> ""]
    /\ completed_at = [t \in TaskIds |-> FALSE]
    /\ crawl_queue = <<>>
    /\ unfinished_tasks = 0
    /\ canceled_tasks = {}
    /\ main_pc = "off"
    /\ d_pc = "off"
    /\ d_task = NoTask
    /\ d_canceled = FALSE
    /\ d_exc = ""
    /\ d_conn = "closed"
    /\ process = "none"
    /\ adding = {}
    /\ stale_pc = "off"
    /\ stale_id = 0
    /\ canceling = {}
    /\ direct_procs = 0
    /\ requests = 0
    /\ leftover = {}
    /\ cancel_req = {}
    /\ cancel_pending = {}
    /\ cancel_noop = {}
    /\ exc_of = [t \in TaskIds |-> ""]

\* ------------------------------------------------------- what the web serves
\* The answer to one page GET: exc is a requests exception (timeout,
\* connection refused); otherwise the status, the Content-Type and what the
\* parser finds in the body: <title>, the description (the meta, or for
\* web.py the <p>/<pre> text standing in for it) and keywords metas, a robots
\* noindex meta and the hrefs of <a>.
Response(exc, sc, ct, t, d, k, n, h) ==
    [exc |-> exc, status_code |-> sc, content_type |-> ct, title |-> t,
     description |-> d, keywords |-> k, noindex |-> n, hrefs |-> h]

Titles == {"", "Home", "Error 404", NoneTitle}

Hrefs ==
    {[netloc |-> "a.com", path |-> "/p", slash |-> TRUE, query |-> ""],
     [netloc |-> "nota.com", path |-> "", slash |-> FALSE, query |-> ""]}

\* the answers whose body holds one of the link sets H
Responses(H) ==
    {Response(TRUE, 0, "", "", "", "", FALSE, {})}
    \cup {Response(FALSE, sc, "text/html", "", "", "", FALSE, {}) :
            sc \in {404, 429, 500}}
    \cup {Response(FALSE, 200, "image/png", "", "", "", FALSE, {})}
    \cup {Response(FALSE, 200, "text/html", t, d, k, n, h) :
            t \in Titles, d \in {"", "D"}, k \in {"", "K"}, n \in BOOLEAN,
            h \in H}

\* '404' in title
Has404(title) == title = "Error 404"

\* the pages table before a pass: at most MaxRows rows, left by earlier passes
Stores ==
    {s \in [Keys -> {NoRow, StoredRow("old"), StoredRow("fresh")}] :
        Cardinality({k \in Keys : s[k].present}) <= MaxRows}

\* ------------------------------------------------------------ web.py
\* crawl_page with the lookup of line 220 succeeding and every href of the page
\* handed back, whatever its domain
crawl_page_following_links(url, response, store) ==
    IF response.exc \/ response.status_code # 200 \/ response.title = NoneTitle
        THEN [none |-> FALSE, links |-> {}, store |-> store]
    ELSE IF Has404(response.title)
        THEN [none |-> TRUE, links |-> {}, store |-> store]
    ELSE [none |-> FALSE, links |-> {normalize_url(h) : h \in response.hrefs},
          store |-> store]

\* crawl_page(url, stealth_mode): what it returns (None, or the set links) and
\* the pages table it leaves, given the answer to session.get(normalized_url).
\* Line 220 reads the name c, which web.py binds nowhere (no global, no
\* parameter, no local): the statement raises NameError, the except clause of
\* line 258 returns set(), and the statements of lines 221-256 (the row
\* comparison, update_page, save_page, the link collection) never run.
crawl_page(url, response, store) ==
    LET links  == {}
        caught == [none |-> FALSE, links |-> {}, store |-> store]
    IN  IF response.exc
            THEN caught
        ELSE IF response.status_code # 200
            THEN [none |-> FALSE, links |-> links, store |-> store]
        ELSE IF response.title = NoneTitle
            THEN caught   \* '404' in None: TypeError
        ELSE IF Has404(response.title)
            THEN [none |-> TRUE, links |-> {}, store |-> store]
        ELSE caught       \* c.execute: NameError

\* the kind of answer, in the terms of the error taxonomy
Class(response) ==
    IF response.exc THEN "exc"
    ELSE IF response.status_code = 429 THEN "429"
    ELSE IF response.status_code >= 400 /\ response.status_code < 500 THEN "4xx"
    ELSE IF response.status_code # 200 THEN "other"
    ELSE IF response.content_type # "text/html" THEN "nonhtml"
    ELSE "ok"

\* history: the GET of `key` received `response`
\* lines 238-256: the hrefs of the page on the page's own domain, normalized
ValidLinks(url, response) ==
    {normalize_url(h) : h \in {l \in response.hrefs : l.netloc = url.netloc}}

Fetched(key, response, store) ==
    IF Class(response) = "ok"
    THEN [key |-> key, class |-> "ok", title |-> response.title,
          description |-> response.description, keywords |-> response.keywords,
          noindex |-> response.noindex, had_row |-> store[key].present,
          foreign |-> \E h \in response.hrefs : h.netloc # key.netloc,
          links |-> ValidLinks(key, response)]
    ELSE [NoFetch EXCEPT !.key = key, !.class = Class(response),
                         !.had_row = store[key].present]

\* python web.py -u args.url -d args.depth: lines 348-350
InitWeb ==
    /\ prog = "web"
    /\ pages \in {s \in Stores : \A k \in Keys : s[k].last_crawled # "fresh"}
    /\ args_url \in URLs
    /\ args_depth \in 0..MaxDepth
    /\ m_pc = "loop"
    /\ depth = 0
    /\ visited = {}
    /\ to_visit = {args_url}
    /\ new_urls = {}
    /\ all_found_urls = {}
    /\ futures = [u \in URLs |-> NoFuture]
    /\ fav_todo = {}
    /\ retries = [k \in Keys |-> 0]
    /\ pages0 = pages
    /\ fetches = [k \in Keys |-> 0]
    /\ waited = [k \in Keys |-> 0]
    /\ last = NoFetch
    /\ fav_fetched = {}

\* the loop running once more than asked
levels_inclusive(n) == 0..n

\* range(args.depth): the levels the loop of line 352 runs
levels(n) == 0..(n - 1)

\* lines 352-360: one more level; a future per URL of to_visit not in visited
main_submit ==
    /\ prog = "web"
    /\ m_pc = "loop"
    /\ depth \in levels(args_depth)
    /\ to_visit # {}
    /\ futures' = [u \in URLs |->
                     IF u \in to_visit /\ u \notin visited
                     THEN [NoFuture EXCEPT !.st = "pending"] ELSE NoFuture]
    /\ new_urls' = {}
    /\ m_pc' = "collect"
    /\ UNCHANGED <<prog, pages, args_url, args_depth, depth, visited, to_visit,
                   all_found_urls, fav_todo, retries, pages0, fetches, waited,
                   last, fav_fetched>>
    /\ UNCHANGED <<orch, side>>

\* an executor thread runs crawl_page(url, args.stealth)
worker(url) ==
    /\ prog = "web"
    /\ futures[url].st = "pending"
    /\ \E response \in Responses(SUBSET Hrefs) :
          LET r == crawl_page(url, response, pages)
              k == normalize_url(url)
          IN  /\ pages' = r.store
              /\ futures' = [futures EXCEPT ![url] =
                               [st |-> "done", none |-> r.none, links |-> r.links]]
              /\ fetches' = [fetches EXCEPT ![k] = @ + 1]
              /\ last' = Fetched(k, response, pages)
    /\ UNCHANGED <<prog, args_url, args_depth, m_pc, depth, visited, to_visit,
                   new_urls, all_found_urls, fav_todo, retries, pages0, waited,
                   fav_fetched>>
    /\ UNCHANGED <<orch, side>>

\* lines 361-368, one iteration of the as_completed loop; new_urls.update(None)
\* raises TypeError, which nothing in main catches
main_collect(url) ==
    /\ prog = "web"
    /\ m_pc = "collect"
    /\ futures[url].st = "done"
    /\ visited' = visited \cup {url}
    /\ futures' = [futures EXCEPT ![url].st = "collected"]
    /\ IF futures[url].none
       THEN /\ m_pc' = "raised"
            /\ UNCHANGED <<new_urls, all_found_urls>>
       ELSE /\ new_urls' = new_urls \cup futures[url].links
            /\ all_found_urls' = all_found_urls \cup futures[url].links \cup {url}
            /\ UNCHANGED m_pc
    /\ UNCHANGED <<prog, pages, args_url, args_depth, depth, to_visit, fav_todo,
                   retries, pages0, fetches, waited, last, fav_fetched>>
    /\ UNCHANGED <<orch, side>>

\* line 370, after the last future of the level
main_level_end ==
    /\ prog = "web"
    /\ m_pc = "collect"
    /\ \A u \in URLs : futures[u].st \in {"none", "collected"}
    /\ to_visit' = new_urls \ visited
    /\ depth' = depth + 1
    /\ m_pc' = "loop"
    /\ UNCHANGED <<prog, pages, args_url, args_depth, visited, new_urls,
                   all_found_urls, futures, fav_todo, retries, pages0, fetches,
                   waited, last, fav_fetched>>
    /\ UNCHANGED <<orch, side>>

\* the answer to the favicon GET of a domain
FavResponses ==
    [exc : {TRUE}, status_code : {0}, content_type : {""}]
    \cup [exc : {FALSE}, status_code : {404}, content_type : {"text/html"}]
    \cup [exc : {FALSE}, status_code : {200},
          content_type : {"image/png", "text/html", "application/octet-stream"}]

NoHash == "null"

\* what kind of answer the favicon GET got
FavClass(response) ==
    IF response.exc THEN "exc"
    ELSE IF response.status_code # 200 THEN "non200"
    ELSE IF response.content_type = "text/html" THEN "html"
    ELSE IF response.content_type = "image/png" THEN "image"
    ELSE "unknown"

FavFetched(domain, response, hash) ==
    [domain |-> domain, class |-> FavClass(response), hash |-> hash]

\* md5(favicon_url.encode()).hexdigest(), favicon_url being on `domain`
md5(domain) == IF domain = "a.com" THEN "md5-a.com" ELSE "md5-nota.com"

\* web.py download_favicon: None unless the status is 200; the Content-Type
\* only chooses the file extension
download_favicon(domain, response) ==
    IF response.exc THEN NoHash
    ELSE IF response.status_code # 200 THEN NoHash
    ELSE md5(domain)

\* url LIKE '%domain%': the URL text contains the domain
like(url, domain) ==
    \/ url.netloc = domain
    \/ url.netloc = "nota.com" /\ domain = "a.com"

\* lines 352-354 and 372-373, 318-327: the loop ends (levels exhausted, or
\* `if not to_visit: break`); crawl_for_favicons submits one download per domain
main_loop_exit ==
    /\ prog = "web"
    /\ m_pc = "loop"
    /\ depth \notin levels(args_depth) \/ to_visit = {}
    /\ fav_todo' = {u.netloc : u \in all_found_urls}
    /\ m_pc' = "favicons"
    /\ UNCHANGED <<prog, pages, args_url, args_depth, depth, visited, to_visit,
                   new_urls, all_found_urls, futures, retries, pages0, fetches,
                   waited, last, fav_fetched>>
    /\ UNCHANGED <<orch, side>>

\* lines 330-339: download_favicon(domain) ran, its result is handled
crawl_for_favicons(domain) ==
    /\ prog = "web"
    /\ m_pc = "favicons"
    /\ domain \in fav_todo
    /\ \E response \in FavResponses :
          LET favicon_hash == download_favicon(domain, response)
          IN  /\ pages' = [k \in Keys |->
                             IF favicon_hash # NoHash /\ pages[k].present
                                  /\ like(k, domain)
                             THEN [pages[k] EXCEPT !.favicon_id = favicon_hash]
                             ELSE pages[k]]
              /\ fav_last' = FavFetched(domain, response, favicon_hash)
    /\ fav_todo' = fav_todo \ {domain}
    /\ fav_fetched' = fav_fetched \cup {domain}
    /\ UNCHANGED <<prog, args_url, args_depth, m_pc, depth, visited, to_visit,
                   new_urls, all_found_urls, futures, retries, pages0, fetches,
                   waited, last>>
    /\ UNCHANGED <<orch, callback, updates, stream, pure>>

\* line 374: print("Crawl complete.")
main_done ==
    /\ prog = "web"
    /\ m_pc = "favicons"
    /\ fav_todo = {}
    /\ m_pc' = "done"
    /\ UNCHANGED <<prog, pages, args_url, args_depth, depth, visited, to_visit,
                   new_urls, all_found_urls, futures, fav_todo, retries, pages0,
                   fetches, waited, last, fav_fetched>>
    /\ UNCHANGED <<orch, side>>

\* dashboard.py lines 124-125 and 226: canceled_tasks.add(task_id) makes
\* is_canceled() answer True from now on; main and crawl_page take no such
\* callback and read no such flag
cancel_reported ==
    /\ prog = "web"
    /\ m_pc \in {"loop", "collect"}
    /\ ~is_canceled
    /\ is_canceled' = TRUE
    /\ UNCHANGED <<orch, engine, favs, stream, pure>>

\* ------------------------------------------------------ resultupdater.py
DefaultRetries == 3     \* crawl(..., retries=3)
RetryDelay == 5         \* time.sleep(5)

\* python resultupdater.py
InitRefresh ==
    /\ prog = "resultupdater"
    /\ pages \in Stores
    /\ args_url = NoUrl
    /\ args_depth = 0
    /\ m_pc = "start"
    /\ depth = 0
    /\ visited = {}
    /\ to_visit = {}
    /\ new_urls = {}
    /\ all_found_urls = {}
    /\ futures = [u \in URLs |-> NoFuture]
    /\ fav_todo = {}
    /\ retries = [k \in Keys |-> 0]
    /\ pages0 = pages
    /\ fetches = [k \in Keys |-> 0]
    /\ waited = [k \in Keys |-> 0]
    /\ last = NoFetch
    /\ fav_fetched = {}

\* get_stale_urls: last_crawled IS NULL or older than the 14 day cut-off
get_stale_urls(store) ==
    {k \in Keys : store[k].present /\ store[k].last_crawled \in {"null", "old"}}

\* lines 194-202: a future running process_url(url, True) per stale URL
refresh_submit ==
    /\ prog = "resultupdater"
    /\ m_pc = "start"
    /\ futures' = [u \in URLs |->
                     IF u \in get_stale_urls(pages)
                     THEN [NoFuture EXCEPT !.st = "pending"] ELSE NoFuture]
    /\ retries' = [k \in Keys |-> DefaultRetries]
    /\ m_pc' = "collect"
    /\ UNCHANGED <<prog, pages, args_url, args_depth, depth, visited, to_visit,
                   new_urls, all_found_urls, fav_todo, pages0, fetches, waited,
                   last, fav_fetched>>
    /\ UNCHANGED <<orch, side>>

\* resultupdater.py download_favicon: a hash only for status 200 with a
\* Content-Type of the extension table
ru_download_favicon(domain, response) ==
    IF response.exc THEN NoHash
    ELSE IF response.status_code # 200 THEN NoHash
    ELSE IF response.content_type = "text/html" THEN NoHash
    ELSE IF response.content_type # "image/png" THEN NoHash
    ELSE md5(domain)

\* the test of line 154 without its upper limit
is_client_error_or_above(status_code) == status_code >= 400

\* line 154: 400 <= response.status_code < 500 (429 was tested before)
is_client_error(status_code) == status_code >= 400 /\ status_code < 500

\* line 157
is_skipped(response) ==
    response.status_code # 200 \/ response.content_type # "text/html"

\* remove_url: DELETE FROM pages WHERE url = ?
remove_url(store, url) == [store EXCEPT ![url] = NoRow]

\* resultupdater.py update_page: title, description, keywords, last_crawled
\* and favicon_id are all set
ru_update_page(store, url, title, description, keywords, favicon_id) ==
    [store EXCEPT ![url] =
        [@ EXCEPT !.title = title, !.description = description,
                  !.keywords = keywords, !.last_crawled = "now",
                  !.favicon_id = favicon_id]]

\* resultupdater.py save_page: INSERT ... priority 0
ru_save_page(store, url, title, description, keywords, favicon_id) ==
    [store EXCEPT ![url] =
        [present |-> TRUE, title |-> title, description |-> description,
         keywords |-> keywords, priority |-> 0, last_crawled |-> "now",
         favicon_id |-> favicon_id]]

\* lines 161-179: parse, download the favicon, update or insert
ru_store_page(store, url, response, fav) ==
    LET favicon_id == ru_download_favicon(url.netloc, fav)
    IN  IF store[url].present
        THEN ru_update_page(store, url, response.title, response.description,
                            response.keywords, favicon_id)
        ELSE ru_save_page(store, url, response.title, response.description,
                          response.keywords, favicon_id)

\* crawl(url, session, conn, stealth_mode, retries): one session.get and what
\* follows it, up to the return or to the sleep before the recursive call
crawl(url) ==
    /\ prog = "resultupdater"
    /\ futures[url].st = "pending"
    /\ \E response \in Responses({{}}) :
          /\ fetches' = [fetches EXCEPT ![url] = @ + 1]
          /\ last' = Fetched(url, response, pages)
          /\ IF response.exc
             THEN /\ futures' = [futures EXCEPT ![url].st = "done"]
                  /\ UNCHANGED <<pages, fav_fetched>>
             ELSE IF response.status_code = 429
             THEN /\ futures' = [futures EXCEPT ![url].st =
                                   IF retries[url] > 0 THEN "sleeping" ELSE "done"]
                  /\ UNCHANGED <<pages, fav_fetched>>
             ELSE IF is_client_error(response.status_code)
             THEN /\ pages' = remove_url(pages, url)
                  /\ futures' = [futures EXCEPT ![url].st = "done"]
                  /\ UNCHANGED fav_fetched
             ELSE IF is_skipped(response)
             THEN /\ futures' = [futures EXCEPT ![url].st = "done"]
                  /\ UNCHANGED <<pages, fav_fetched>>
             ELSE /\ \E fav \in FavResponses :
                        pages' = ru_store_page(pages, url, response, fav)
                  /\ fav_fetched' = fav_fetched \cup {url.netloc}
                  /\ futures' = [futures EXCEPT ![url].st = "done"]
    /\ UNCHANGED <<prog, args_url, args_depth, m_pc, depth, visited, to_visit,
                   new_urls, all_found_urls, fav_todo, retries, pages0, waited>>
    /\ UNCHANGED <<orch, side>>

\* lines 149-150: time.sleep(5), then crawl(..., retries - 1)
crawl_retry(url) ==
    /\ prog = "resultupdater"
    /\ futures[url].st = "sleeping"
    /\ waited' = [waited EXCEPT ![url] = @ + RetryDelay]
    /\ retries' = [retries EXCEPT ![url] = @ - 1]
    /\ futures' = [futures EXCEPT ![url].st = "pending"]
    /\ UNCHANGED <<prog, pages, args_url, args_depth, m_pc, depth, visited,
                   to_visit, new_urls, all_found_urls, fav_todo, pages0, fetches,
                   last, fav_fetched>>
    /\ UNCHANGED <<orch, side>>

\* lines 203-209: every future has finished (future.result() raises nothing,
\* crawl catches what it raises), then tqdm.write("Crawl complete.")
refresh_done ==
    /\ prog = "resultupdater"
    /\ m_pc = "collect"
    /\ \A u \in URLs : futures[u].st \in {"none", "done"}
    /\ m_pc' = "done"
    /\ UNCHANGED <<prog, pages, args_url, args_depth, depth, visited, to_visit,
                   new_urls, all_found_urls, futures, fav_todo, retries, pages0,
                   fetches, waited, last, fav_fetched>>
    /\ UNCHANGED <<orch, side>>

\* ----------------------------------------------------------- favicons.py
\* python favicons.py, confirmed with "yes"
InitFavicons ==
    /\ prog = "favicons"
    /\ pages \in Stores
    /\ args_url = NoUrl
    /\ args_depth = 0
    /\ m_pc = "start"
    /\ depth = 0
    /\ visited = {}
    /\ to_visit = {}
    /\ new_urls = {}
    /\ all_found_urls = {}
    /\ futures = [u \in URLs |-> NoFuture]
    /\ fav_todo = {}
    /\ retries = [k \in Keys |-> 0]
    /\ pages0 = pages
    /\ fetches = [k \in Keys |-> 0]
    /\ waited = [k \in Keys |-> 0]
    /\ last = NoFetch
    /\ fav_fetched = {}

\* favicons.py extract_domain: urlparse(url).netloc
extract_domain(url) == url.netloc

\* favicons.py download_favicon: (domain, favicon_hash) for status 200 with a
\* Content-Type of the extension table, (domain, None) otherwise
fv_download_favicon(domain, response) ==
    IF response.exc THEN NoHash
    ELSE IF response.status_code # 200 THEN NoHash
    ELSE IF response.content_type = "text/html" THEN NoHash
    ELSE IF response.content_type = "image/png" THEN md5(domain)
    ELSE NoHash

\* favicons.py lines 124-139: SELECT DISTINCT url FROM pages; one
\* download_favicon per domain is submitted
fv_submit ==
    /\ prog = "favicons"
    /\ m_pc = "start"
    /\ fav_todo' = {extract_domain(k) : k \in {u \in Keys : pages[u].present}}
    /\ m_pc' = "favicons"
    /\ UNCHANGED <<prog, pages, args_url, args_depth, depth, visited, to_visit,
                   new_urls, all_found_urls, futures, retries, pages0, fetches,
                   waited, last, fav_fetched>>
    /\ UNCHANGED <<orch, side>>

\* lines 142-145: a future completes; a hash is appended to updates together
\* with the LIKE pattern of its domain
fv_download(domain) ==
    /\ prog = "favicons"
    /\ m_pc = "favicons"
    /\ domain \in fav_todo
    /\ \E response \in FavResponses :
          LET favicon_id == fv_download_favicon(domain, response)
          IN  /\ updates' = IF favicon_id # NoHash
                            THEN Append(updates, <<favicon_id, domain>>)
                            ELSE updates
              /\ fav_last' = FavFetched(domain, response, favicon_id)
    /\ fav_todo' = fav_todo \ {domain}
    /\ fav_fetched' = fav_fetched \cup {domain}
    /\ UNCHANGED <<prog, pages, args_url, args_depth, m_pc, depth, visited,
                   to_visit, new_urls, all_found_urls, futures, retries, pages0,
                   fetches, waited, last>>
    /\ UNCHANGED <<orch, callback, stream, pure>>

RECURSIVE executemany(_, _)
\* cursor.executemany("UPDATE pages SET favicon_id = ? WHERE url LIKE ?", ups):
\* one UPDATE per element, in the order of the list
executemany(store, ups) ==
    IF ups = <<>> THEN store
    ELSE executemany(
            [k \in Keys |->
                IF store[k].present /\ like(k, Head(ups)[2])
                THEN [store[k] EXCEPT !.favicon_id = Head(ups)[1]]
                ELSE store[k]],
            Tail(ups))

\* lines 147-149 and batch_update_favicon_ids: every future was handled;
\* `if updates:` the batch is written
batch_update_favicon_ids ==
    /\ prog = "favicons"
    /\ m_pc = "favicons"
    /\ fav_todo = {}
    /\ pages' = executemany(pages, updates)
    /\ m_pc' = "done"
    /\ UNCHANGED <<prog, args_url, args_depth, depth, visited, to_visit,
                   new_urls, all_found_urls, futures, fav_todo, retries, pages0,
                   fetches, waited, last, fav_fetched>>
    /\ UNCHANGED <<orch, side>>

\* ------------------------------------------------------------ a pass
InitPass ==
    /\ OrchIdle
    /\ CallbackIdle /\ FavsIdle /\ StreamIdle /\ PureIdle
    /\ InitWeb \/ InitRefresh \/ InitFavicons

NextPass ==
    \/ main_submit
    \/ \E url \in URLs : worker(url)
    \/ \E url \in URLs : main_collect(url)
    \/ main_level_end
    \/ main_loop_exit
    \/ \E domain \in Domains : crawl_for_favicons(domain)
    \/ main_done
    \/ cancel_reported
    \/ refresh_submit
    \/ \E url \in Keys : crawl(url)
    \/ \E url \in Keys : crawl_retry(url)
    \/ refresh_done
    \/ fv_submit
    \/ \E domain \in Domains : fv_download(domain)
    \/ batch_update_favicon_ids

SpecPass == InitPass /\ [][NextPass]_vars

\* =================================================================
\* Properties of a pass
\* =================================================================
\* the step sends a page GET for key k
FetchOf(k) == fetches'[k] = fetches[k] + 1

\* the step sends a page GET
Fetch == \E k \in Keys : FetchOf(k)

\* the page just received is one the policy skips: a robots noindex meta, or
\* "404" in its title
PolicySkip(f) == f.noindex \/ Has404(f.title)

\* C11: within one crawl pass no normalized URL is fetched twice, and a URL
\* whose fetch has begun is already in visited under its normalized key.
C11_ClaimedBeforeFetch ==
    prog = "web" =>
        \A k \in Keys :
            /\ fetches[k] <= 1
            /\ fetches[k] > 0 => k \in visited

C13_DepthZeroNoFetch ==
    (prog = "web" /\ args_depth = 0) =>
        /\ \A k \in Keys : fetches[k] = 0
        /\ fav_fetched = {}
        /\ pages = pages0

\* a finished pass of depth 0 over a table that holds a row
C13_Witness ==
    /\ prog = "web"
    /\ args_depth = 0
    /\ m_pc = "done"
    /\ \E k \in Keys : pages[k].present

\* no crawl of key k is running or waiting to retry
Returned(k) ==
    /\ \E u \in URLs : normalize_url(u) = k /\ futures[u].st \in {"done", "collected"}
    /\ \A u \in URLs :
          normalize_url(u) = k => futures[u].st \notin {"pending", "sleeping"}

\* C14: a URL given up after nothing but 429 answers received exactly 3 GETs,
\* 5 seconds apart, and its row is as it was.
C14_ThreeAttemptsThenAbandon ==
    \A k \in Keys :
        (last.key = k /\ last.class = "429" /\ Returned(k)) =>
            /\ fetches[k] = 3
            /\ waited[k] = RetryDelay * (fetches[k] - 1)
            /\ pages[k] = pages0[k]

\* C15: a GET answered with a 4xx status other than 429 deletes the row of the
\* URL, if there is one, and changes no other row.
C15_ClientErrorDeletesRow ==
    [][\A k \in Keys :
          (FetchOf(k) /\ last'.class = "4xx") =>
              pages' = [pages EXCEPT ![k] = NoRow]]_vars

C17_PolicySkipChangesNothing ==
    [][(Fetch /\ last'.class = "ok" /\ PolicySkip(last')) => pages' = pages]_vars

\* C18: whatever a URL's processing ends in, crawl_page hands back a set of
\* links and main goes on with the pass.
C18_NoOutcomeAbortsPass ==
    prog = "web" =>
        /\ m_pc # "raised"
        /\ \A u \in URLs : ~futures[u].none

\* web.py line 175: saved_urls = set(); no statement adds to it
saved_urls == {}

\* the page just received was fetched and parsed with success
Success(f) == f.class = "ok" /\ f.title # NoneTitle /\ ~PolicySkip(f)

\* C19: after the crawl worker fetched and parsed with success a page whose
\* normalized URL had no row, a row of that key holds the extracted title,
\* description and keywords and a last_crawled, and the URL is in saved_urls.
C19_NewPageSaved ==
    [][\A k \in Keys :
          (prog = "web" /\ FetchOf(k) /\ Success(last') /\ ~pages[k].present) =>
              /\ pages'[k].present
              /\ pages'[k].title = last'.title
              /\ pages'[k].description = last'.description
              /\ pages'[k].keywords = last'.keywords
              /\ pages'[k].last_crawled # "null"
              /\ k \in saved_urls]_vars

\* web.py lines 223-226
priority_adjustment(url, title, description, keywords) ==
    (IF is_home_page(url) THEN 5 ELSE 0)
    - (IF title = "" THEN 5 ELSE 0)
    - (IF description = "" THEN 3 ELSE 0)
    + (IF keywords # "" THEN 1 ELSE 0)

\* C20: a successful fetch changes the stored priority by the computed delta:
\* a new page gets priority = base, an existing one old priority + base + 1.
C20_PriorityDelta ==
    [][\A k \in Keys :
          (FetchOf(k) /\ Success(last')) =>
              LET base == priority_adjustment(k, last'.title, last'.description,
                                              last'.keywords)
              IN  pages'[k].priority =
                    IF pages[k].present THEN pages[k].priority + base + 1
                    ELSE base]_vars

\* =================================================================
\* normalize_url (src/web.py, src/resultupdater.py)
\* =================================================================
\* A URL text is a sequence of symbols: the delimiters urlsplit looks for,
\* and words, which are runs of other characters (all lower case, each
\* starting with a letter).
Delims == {":", "/", "?", "#"}
Words  == {"a", "https", "youtube.com", "watch", "v=abc", "t=5"}

\* words made of scheme characters only (letters, digits, "+", "-", ".")
SchemeWords == {"a", "https", "youtube.com", "watch"}

\* urllib.parse.uses_netloc, as far as Words goes
uses_netloc == {<<"https">>}

RECURSIVE Texts(_)
\* the texts of exactly n symbols over the delimiters and the word "a"
Texts(n) ==
    IF n = 0 THEN {<<>>}
    ELSE {Append(t, c) : t \in Texts(n - 1), c \in Delims \cup {"a"}}

\* URLs put together from parts: scheme, //host, path, query, fragment
Assembled ==
    {sch \o host \o path \o qry \o frag :
        sch  \in {<<>>, <<"https", ":">>},
        host \in {<<>>, <<"/", "/", "youtube.com">>},
        path \in {<<>>, <<"/">>, <<"/", "watch">>, <<"/", "watch", "/", "/">>},
        qry  \in {<<>>, <<"?", "v=abc">>},
        frag \in {<<>>, <<"#", "t=5">>, <<"#", "/">>}}

\* the arguments normalize_url is evaluated on
Inputs == UNION {Texts(n) : n \in 0..MaxLen} \cup Assembled

\* str.find, counted from 1: the place of the first symbol of `cs`, or 0
find(s, cs) ==
    IF \E i \in 1..Len(s) : s[i] \in cs
    THEN CHOOSE i \in 1..Len(s) :
            s[i] \in cs /\ \A j \in 1..(i - 1) : s[j] \notin cs
    ELSE 0

\* s[i:] counted from 1
from(s, i) == SubSeq(s, i, Len(s))

\* str.rstrip('/'): every trailing slash is removed
rstrip(s) ==
    LET n == CHOOSE n \in 0..Len(s) :
                /\ \A i \in (n + 1)..Len(s) : s[i] = "/"
                /\ n = 0 \/ s[n] # "/"
    IN  SubSeq(s, 1, n)

\* urllib.parse.urlsplit (urlparse adds only params, which need a ";")
urlparse(url) ==
    LET i      == find(url, {":"})
        has    == i > 1 /\ \A j \in 1..(i - 1) : url[j] \in SchemeWords
        scheme == IF has THEN SubSeq(url, 1, i - 1) ELSE <<>>
        r1     == IF has THEN from(url, i + 1) ELSE url
        slashes == Len(r1) >= 2 /\ r1[1] = "/" /\ r1[2] = "/"
        r2     == IF slashes THEN from(r1, 3) ELSE r1
        e      == find(r2, {"/", "?", "#"})
        netloc == IF ~slashes THEN <<>>
                  ELSE IF e = 0 THEN r2 ELSE SubSeq(r2, 1, e - 1)
        r3     == IF ~slashes THEN r1 ELSE IF e = 0 THEN <<>> ELSE from(r2, e)
        f      == find(r3, {"#"})
        fragment == IF f = 0 THEN <<>> ELSE from(r3, f + 1)
        r4     == IF f = 0 THEN r3 ELSE SubSeq(r3, 1, f - 1)
        q      == find(r4, {"?"})
        query  == IF q = 0 THEN <<>> ELSE from(r4, q + 1)
        path   == IF q = 0 THEN r4 ELSE SubSeq(r4, 1, q - 1)
    IN  [scheme |-> scheme, netloc |-> netloc, path |-> path, query |-> query,
         fragment |-> fragment]

\* urllib.parse.urlunsplit, which ParseResult.geturl() returns
geturl(p) ==
    LET u1 == IF p.netloc # <<>>
                 \/ (p.scheme \in uses_netloc
                       /\ ~(Len(p.path) >= 2 /\ p.path[1] = "/" /\ p.path[2] = "/"))
              THEN <<"/", "/">> \o p.netloc
                     \o (IF p.path # <<>> /\ p.path[1] # "/" THEN <<"/">> ELSE <<>>)
                     \o p.path
              ELSE p.path
        u2 == IF p.scheme # <<>> THEN p.scheme \o <<":">> \o u1 ELSE u1
        u3 == IF p.query # <<>> THEN u2 \o <<"?">> \o p.query ELSE u2
    IN  IF p.fragment # <<>> THEN u3 \o <<"#">> \o p.fragment ELSE u3

\* src/web.py normalize_url: f"{scheme}://{netloc}{path}".rstrip('/')
web_normalize_url(url) ==
    LET parsed_url == urlparse(url)
    IN  rstrip(parsed_url.scheme \o <<":", "/", "/">> \o parsed_url.netloc
                 \o parsed_url.path)

\* src/resultupdater.py normalize_url: urlparse(url).geturl().rstrip('/')
ru_normalize_url(url) == rstrip(geturl(urlparse(url)))

normalize_of(impl, url) ==
    IF impl = "web" THEN web_normalize_url(url) ELSE ru_normalize_url(url)

\* one evaluation: an argument for one of the two modules
InitNorm ==
    /\ OrchIdle /\ EngineIdle /\ CallbackIdle /\ FavsIdle /\ StreamIdle
    /\ n_impl \in {"web", "resultupdater"}
    /\ n_pc = "in"
    /\ n_in \in Inputs
    /\ n_once = <<>>
    /\ n_twice = <<>>

\* normalize_url(n_in)
normalize_once ==
    /\ n_pc = "in"
    /\ n_once' = normalize_of(n_impl, n_in)
    /\ n_pc' = "once"
    /\ UNCHANGED <<n_impl, n_in, n_twice>>
    /\ UNCHANGED <<orch, engine, callback, favs, stream>>

\* normalize_url of the result
normalize_twice ==
    /\ n_pc = "once"
    /\ n_twice' = normalize_of(n_impl, n_once)
    /\ n_pc' = "twice"
    /\ UNCHANGED <<n_impl, n_in, n_once>>
    /\ UNCHANGED <<orch, engine, callback, favs, stream>>

NextNorm == normalize_once \/ normalize_twice

SpecNorm == InitNorm /\ [][NextNorm]_vars

\* C21: normalizing a normalized URL changes nothing, whatever the text:
\* normalize_url(normalize_url(u)) = normalize_url(u), for src/web.py.
C21_NormalizeIdempotent ==
    (n_impl = "web" /\ n_pc = "twice") => n_twice = n_once

\* the URL has a scheme and a host
WellFormed(p) == p.scheme # <<>> /\ p.netloc # <<>>

\* a designated origin whose identity lives in the query string: the
\* video-watch path
QuerySignificant(p) ==
    p.netloc = <<"youtube.com">> /\ p.path = <<"/", "watch">>

\* C22: of a URL with scheme and host, normalize_url drops the fragment; it
\* keeps the query string of a query-significant origin, and drops the query
\* string and the trailing slashes of every other URL.
C22_FragmentAndQueryPolicy ==
    (n_pc = "once" /\ WellFormed(urlparse(n_in))) =>
        /\ find(n_once, {"#"}) = 0
        /\ IF QuerySignificant(urlparse(n_in))
           THEN urlparse(n_once).query = urlparse(n_in).query
           ELSE /\ find(n_once, {"?"}) = 0
                /\ rstrip(n_once) = n_once

\* =================================================================
\* Properties of the favicon resolvers
\* =================================================================
\* the step handles the finished favicon download of domain D
Resolved(D) == D \in fav_todo /\ D \notin fav_todo'

\* the table with favicon_id set on the rows of the domain, and on no other
ExactUpdate(store, D, hash) ==
    [k \in Keys |->
        IF store[k].present /\ k.netloc = D
        THEN [store[k] EXCEPT !.favicon_id = hash] ELSE store[k]]

\* C23: an icon resolved for domain D sets favicon_id on every row whose URL
\* is on domain D and on no other row, also not on a row whose URL merely
\* contains D; for the update after a crawl pass and for the batch of
\* favicons.py.
C23_FaviconUpdateExact ==
    [][/\ \A D \in Domains :
             (prog = "web" /\ Resolved(D) /\ fav_last'.hash # NoHash) =>
                 pages' = ExactUpdate(pages, D, fav_last'.hash)
       /\ (prog = "favicons" /\ m_pc = "favicons" /\ m_pc' = "done") =>
             \A k \in Keys :
                 pages'[k] =
                    IF pages[k].present
                         /\ \E i \in 1..Len(updates) : updates[i][2] = k.netloc
                    THEN [pages[k] EXCEPT !.favicon_id = md5(k.netloc)]
                    ELSE pages[k]]_vars

\* C24: a favicon GET answered with a status other than 200, or with a
\* Content-Type text/html, or with one outside the image table, resolves to
\* nothing: no hash, no favicon_id written; for the resolver after a crawl
\* pass and for favicons.py.
C24_NoIconNoResult ==
    [][\A D \in Domains :
          (prog \in {"web", "favicons"} /\ Resolved(D)
             /\ fav_last'.class \in {"non200", "html", "unknown"}) =>
              /\ fav_last'.hash = NoHash
              /\ pages' = pages
              /\ updates' = updates]_vars

C27_LinksHandedOn ==
    [][\A u \in URLs :
          (prog = "web" /\ futures[u].st = "pending" /\ futures'[u].st = "done"
             /\ Success(last')) =>
              /\ ~futures'[u].none
              /\ futures'[u].links = last'.links
              /\ LET k == normalize_url(u)
                 IN  (pages[k].present /\ pages[k].title = last'.title
                        /\ pages[k].description = last'.description
                        /\ pages[k].keywords = last'.keywords) =>
                       /\ pages'[k].title = pages[k].title
                       /\ pages'[k].description = pages[k].description
                       /\ pages'[k].keywords = pages[k].keywords
                       /\ pages'[k].last_crawled = pages[k].last_crawled]_vars

\* C29: a refresh that fetches with success a URL whose row has a favicon_id
\* leaves the row with that favicon_id, or with the one just resolved for its
\* domain; it never sets it to null.
C29_RefreshKeepsIcon ==
    [][\A k \in Keys :
          (prog = "resultupdater" /\ FetchOf(k) /\ last'.class = "ok"
             /\ pages[k].present /\ pages[k].favicon_id # "null") =>
              pages'[k].favicon_id \in {pages[k].favicon_id, md5(k.netloc)}]_vars

\* =================================================================
\* The output of a refresh task
\* =================================================================
\* the dispatcher runs the refresh subprocess of a stale-update task
Streaming == d_pc = "stream"

\* C26: while a stale-refresh task runs, a line read while the task is not
\* in the registry is appended to the log, in order; once the task is in the
\* registry the loop is left only by terminating the subprocess, a line read
\* from then on is not logged, and the final status is written only after
\* process.wait() has returned.
C26_RefreshStreamCancel ==
    [][/\ (Streaming /\ d_task.id \notin canceled_tasks /\ s_read' = s_read + 1)
             => s_log' = Append(s_log, s_read')
       /\ (Streaming /\ d_task.id \in canceled_tasks /\ s_read' = s_read + 1)
             => s_log' = s_log
       /\ (Streaming /\ d_task.id \in canceled_tasks /\ ~Streaming')
             => process' = "terminated"
       /\ (d_pc' = "final" /\ d_task.task_type = "stale_update")
             => process' = "none"]_vars

\* =================================================================
\* Progress of the dispatcher
\* =================================================================
\* Spec with the scheduling the threads of __main__ get: the main thread
\* returns from reset_running_tasks, a request that has inserted its row goes
\* on to its put or add, the scheduler thread goes on to its put, and the
\* dispatcher thread takes its next step whenever it has one (a crawl or a
\* refresh subprocess, once started, returns, raises or ends).
FairSpec ==
    /\ Spec
    /\ WF_vars(reset_running_tasks)
    /\ \A t \in TaskIds : WF_vars(add_task_put(t))
    /\ WF_vars(periodic_put)
    /\ \A t \in TaskIds : WF_vars(cancel_task_add(t))
    /\ WF_vars(background_crawler)

\* C28: every task that was put on the queue reaches a terminal status.
C28_SubmittedTaskTerminates ==
    \A t \in TaskIds : InQueue(t) ~> (status[t] \in Terminal)

====
